---- MODULE Spec2Model ----
(***************************************************************************)
(* Model of the osm-opening-hours-demo data pipeline: the osm2pgsql flex   *)
(* Lua script embedded in data-pipeline/run_osm2pgsql.sh (rule index       *)
(* construction, tag matching, POI classification, node / way callbacks).  *)
(*                                                                         *)
(* Library behaviour the script relies on:                                 *)
(*  - table.sort is not stable (Lua reference manual): candidates the      *)
(*    comparator does not order may end up in any relative order;          *)
(*  - pairs() enumerates a table's keys in an unspecified order;           *)
(*  - object:grab_tag(k) returns the value of tag k and removes the tag    *)
(*    from object.tags (osm2pgsql flex API);                               *)
(*  - indexing a nil value raises an error, which aborts the chunk.        *)
(***************************************************************************)
EXTENDS Integers, Sequences, FiniteSets, TLC

\* ------------------------------------------------------------------------
\* Bounds of the model
\* ------------------------------------------------------------------------

\* most rules (match lists) a rule table declares, over all its categories
MaxRules == 2

\* most elements of an input file whose elements are processed one after
\* the other
MaxElements == 2

\* ------------------------------------------------------------------------
\* Universes the inputs are drawn from
\* ------------------------------------------------------------------------

Nil == "<nil>"

\* keys a rule pair may name, and the values it may expect
RuleKeys == {"shop", "cuisine"}

ExpectedValues == {"bakery", "*"}

\* tag keys of an element of a kind and the values a tag may hold: "Bakery" differs
\* from "bakery" only in case, "*" is the literal asterisk as a tag value
TagKeys(kind) ==
    IF kind = "way" THEN {"name", "shop", "building"}
    ELSE {"name", "shop", "cuisine"}

\* further keys a node may carry, one at a time, with or without a name
OtherKeys == {"amenity", "leisure", "tourism", "office", "craft", "building"}

TagKeySets(kind) ==
    SUBSET TagKeys(kind)
        \cup (IF kind = "node"
              THEN { {x} : x \in OtherKeys } \cup { {"name", x} : x \in OtherKeys }
              ELSE {})

TagValues(k) ==
    IF k = "name" THEN {"ACME"}
    ELSE IF k = "amenity" THEN {"restaurant"}
    ELSE IF k \in OtherKeys THEN {"yes"}
    ELSE {"bakery", "Bakery", "*"}

\* class of the k-th category of a rule table
ClassNames == <<"bakery", "deli", "cafe", "pub", "bank", "park">>

\* the rules over a set of keys: sequences of <<key, expected>> pairs, no
\* key named twice
RulesOver(keys) ==
    { r \in UNION { [1..n -> keys \X ExpectedValues] : n \in 0..Cardinality(keys) } :
        \A i, j \in DOMAIN r : i # j => r[i][1] # r[j][1] }

Rules == RulesOver(RuleKeys)

\* keys of the rules of a table that has rules on the name tag
NameRuleKeys == {"name", "shop"}

\* the k-th smallest element of a set of integers
KthOf(S, k) == CHOOSE i \in S : Cardinality({j \in S : j < i}) = k - 1

\* the rule table made of the rules rs, a category starting at every index
\* of starts
MkTable(rs, starts) ==
    [ k \in 1..Cardinality(starts) |->
        LET from == KthOf(starts, k)
            to   == IF k = Cardinality(starts) THEN Len(rs) ELSE KthOf(starts, k + 1) - 1
        IN  [ class |-> ClassNames[k], matches |-> SubSeq(rs, from, to) ] ]

\* the rule tables of at most MaxRules rules taken from a set of rules
TablesOver(rules) ==
    UNION { { MkTable(rs, starts) :
                rs \in [1..n -> rules],
                starts \in { s \in SUBSET (1..n) : n > 0 => 1 \in s } } :
            n \in 0..MaxRules }

\* poi_mapping: an ordered list of categories {class, matches}
Tables == TablesOver(Rules)

\* rule tables with rules on the name tag
NameTables == TablesOver(RulesOver(NameRuleKeys))

\* tag mappings of an element of a kind: a value for each key of a set of
\* keys
TagMaps(kind) ==
    UNION { { t \in [ks -> UNION { TagValues(k) : k \in ks }] :
                \A k \in ks : t[k] \in TagValues(k) } :
            ks \in TagKeySets(kind) }

Kinds == {"node", "way"}

Versions == {3}

Timestamps == {1700000000}

\* RawElement as the reader supplies it (is_closed is false on a node)
Elements ==
    UNION { [ kind : {kind}, tags : TagMaps(kind),
              is_closed : IF kind = "way" THEN BOOLEAN ELSE {FALSE},
              version : Versions, timestamp : Timestamps ] : kind \in Kinds }

NoElement == [ kind |-> Nil ]

\* the orders pairs() may enumerate the keys of a tag table in
Orders(tags) ==
    { o \in [1..Cardinality(DOMAIN tags) -> DOMAIN tags] :
        \A i, j \in DOMAIN o : i # j => o[i] # o[j] }

\* ------------------------------------------------------------------------
\* State
\* ------------------------------------------------------------------------

VARIABLES
    pc,           \* "load": chunk not run yet; "ready": callbacks defined;
                  \* "aborted": the chunk raised an error; "done": element processed
    poi_mapping,  \* the rule table required from poi_mapping
    poi_lookup,   \* key -> list of candidates {match, class, specificity}
    element,      \* the element handed to the callback, as supplied
    object,       \* the same element after the callback returned
    iter,         \* order in which pairs(object.tags) enumerated the keys
    record,       \* the global 'record' of the script
    inserted,     \* rows the callback handed to pois:insert
    pois,         \* the pois table: every row inserted so far, with its element
    file,         \* the input file: elements with the order pairs() gives their tags
    todo          \* the elements of the file not handed to a callback yet

\* the API server (one request per behaviour)
VARIABLES
    apiPc,        \* "off": not this program; "idle": no request yet; "awaiting":
                  \* the handler awaits pool.query; "closed": the handler returned
    req,          \* the request the handler was called with
    db_rows,      \* the rows of the pois table the pool reads
    queries,      \* the parameter lists pool.query was called with, in order
    responses     \* the responses sent, in order: [status, body]

apiVars == <<apiPc, req, db_rows, queries, responses>>

\* the shell scripts of the data pipeline (one run of one script per behaviour)
VARIABLES
    shPc,         \* "off": not this program; else the command the script is at,
                  \* "exited" once the shell has left the script
    script,       \* "load": load_osm_data.sh; "update": the update script
    sh_env,       \* the shell variables assigned so far
    sh_ran,       \* the external commands run so far: [cmd, status]
    sh_out,       \* the messages printed so far
    sh_exit       \* the exit status of the script, once exited

shVars == <<shPc, script, sh_env, sh_ran, sh_out, sh_exit>>

\* the frontend App component
VARIABLES
    appPc,        \* "off": not this program; "mounted": the component is shown
    loading,      \* useState(false)
    app_pois,     \* the pois state, useState([])
    error,        \* useState(null)
    selectedPoi,  \* useState(null)
    inflight,     \* the fetches awaiting their response: [id, call, arg]
    calls         \* the calls made so far, in order: [call, arg, outcome]

appVars == <<appPc, loading, app_pois, error, selectedPoi, inflight, calls>>

\* the state of the programs other than the classifier
otherPrograms == <<apiVars, shVars, appVars>>

ApiOff ==
    /\ apiPc = "off"
    /\ req = Nil
    /\ db_rows = {}
    /\ queries = <<>>
    /\ responses = <<>>

ShellOff ==
    /\ shPc = "off"
    /\ script = Nil
    /\ sh_env = <<>>
    /\ sh_ran = <<>>
    /\ sh_out = <<>>
    /\ sh_exit = 0

AppOff ==
    /\ appPc = "off"
    /\ loading = FALSE
    /\ app_pois = <<>>
    /\ error = Nil
    /\ selectedPoi = Nil
    /\ inflight = {}
    /\ calls = <<>>

\* the other programs are not running
OthersIdle == ApiOff /\ ShellOff /\ AppOff

vars == <<pc, poi_mapping, poi_lookup, element, object, iter, record, inserted,
          pois, file, todo, otherPrograms>>

\* ------------------------------------------------------------------------
\* Rule index construction (chunk top level)
\* ------------------------------------------------------------------------

compute_specificity(match) ==
    Cardinality({ i \in 1..Len(match) : match[i][2] # "*" })

\* register with the rule filed under the key of its last pair
register_last_key(lookup, class, match) ==
    LET key  == match[Len(match)][1]
        cand == [ match |-> match, class |-> class,
                  specificity |-> compute_specificity(match) ]
    IN  [ k \in DOMAIN lookup \cup {key} |->
            IF k = key
            THEN (IF key \in DOMAIN lookup THEN lookup[key] ELSE <<>>) \o <<cand>>
            ELSE lookup[k] ]

\* table.insert(poi_lookup[key], {...}) for one match of one category;
\* match[1][1] of an empty match indexes nil: the caller checks Len first
register(lookup, class, match) ==
    LET key  == match[1][1]
        cand == [ match |-> match, class |-> class,
                  specificity |-> compute_specificity(match) ]
    IN  [ k \in DOMAIN lookup \cup {key} |->
            IF k = key
            THEN (IF key \in DOMAIN lookup THEN lookup[key] ELSE <<>>) \o <<cand>>
            ELSE lookup[k] ]

\* build_from with an empty match passed over instead of raising
RECURSIVE build_from_skip(_, _, _, _)
build_from_skip(mapping, lookup, ci, mi) ==
    IF ci > Len(mapping) THEN [ lookup |-> lookup, error |-> FALSE ]
    ELSE IF mi > Len(mapping[ci].matches) THEN build_from_skip(mapping, lookup, ci + 1, 1)
    ELSE LET match == mapping[ci].matches[mi]
         IN  IF Len(match) = 0
             THEN build_from_skip(mapping, lookup, ci, mi + 1)
             ELSE build_from_skip(mapping,
                                  [ k \in DOMAIN lookup \cup {match[1][1]} |->
                                      IF k = match[1][1]
                                      THEN (IF k \in DOMAIN lookup THEN lookup[k] ELSE <<>>)
                                           \o << [ match |-> match, class |-> mapping[ci].class,
                                                   specificity |-> compute_specificity(match) ] >>
                                      ELSE lookup[k] ],
                                  ci, mi + 1)

\* the double ipairs loop from category ci, match mi on: the lookup built,
\* and whether match[1][1] raised on an empty match
RECURSIVE build_from(_, _, _, _)
build_from(mapping, lookup, ci, mi) ==
    IF ci > Len(mapping) THEN [ lookup |-> lookup, error |-> FALSE ]
    ELSE IF mi > Len(mapping[ci].matches) THEN build_from(mapping, lookup, ci + 1, 1)
    ELSE LET match == mapping[ci].matches[mi]
         IN  IF Len(match) = 0
             THEN [ lookup |-> lookup, error |-> TRUE ]
             ELSE build_from(mapping, register(lookup, mapping[ci].class, match), ci, mi + 1)

build_lookup(mapping) == build_from(mapping, <<>>, 1, 1)

\* comes_before without the pair count deciding equal specificities
comes_before_no_len(a, b) == a.specificity > b.specificity

\* the comparator handed to table.sort: a goes before b
comes_before(a, b) ==
    IF a.specificity = b.specificity
    THEN Len(a.match) > Len(b.match)
    ELSE a.specificity > b.specificity

\* table.sort left out: the bucket stays in declaration order
table_sort_unsorted(candidates) == { candidates }

\* outcomes of table.sort(candidates, comes_before): the permutations of
\* candidates in which no element comes after one it goes before
table_sort(candidates) ==
    LET n == Len(candidates)
        perms == { p \in [1..n -> 1..n] : \A i, j \in 1..n : i # j => p[i] # p[j] }
    IN  { s \in { [ i \in 1..n |-> candidates[p[i]] ] : p \in perms } :
            \A i, j \in 1..n : i < j => ~comes_before(s[j], s[i]) }

\* outcomes of sorting every bucket
sort_buckets(lookup) ==
    { f \in [ DOMAIN lookup -> UNION { table_sort(lookup[k]) : k \in DOMAIN lookup } ] :
        \A k \in DOMAIN lookup : f[k] \in table_sort(lookup[k]) }

\* ------------------------------------------------------------------------
\* Matching and classification
\* ------------------------------------------------------------------------

\* matches_from with a tag value '*' accepted for any expected value
RECURSIVE matches_from_star(_, _, _)
matches_from_star(tags, rule, i) ==
    IF i > Len(rule) THEN TRUE
    ELSE LET key      == rule[i][1]
             expected == rule[i][2]
         IN  IF key \notin DOMAIN tags THEN FALSE
             ELSE IF expected # "*" /\ tags[key] # "*" /\ tags[key] # expected THEN FALSE
             ELSE matches_from_star(tags, rule, i + 1)

\* the ipairs loop of matches_rule from pair i on
RECURSIVE matches_from(_, _, _)
matches_from(tags, rule, i) ==
    IF i > Len(rule) THEN TRUE
    ELSE LET key      == rule[i][1]
             expected == rule[i][2]
         IN  IF key \notin DOMAIN tags THEN FALSE
             ELSE IF expected # "*" /\ tags[key] # expected THEN FALSE
             ELSE matches_from(tags, rule, i + 1)

matches_rule(tags, rule) == matches_from(tags, rule, 1)

\* scan_candidates without the early return: the last match wins
RECURSIVE scan_candidates_last(_, _, _)
scan_candidates_last(tags, candidates, i) ==
    IF i > Len(candidates) THEN Nil
    ELSE LET rest == scan_candidates_last(tags, candidates, i + 1)
         IN  IF rest # Nil THEN rest
             ELSE IF matches_rule(tags, candidates[i].match) THEN candidates[i].class
             ELSE Nil

\* the ipairs loop over one bucket from candidate i on: the class of the
\* first candidate that matches, Nil when none does
RECURSIVE scan_candidates(_, _, _)
scan_candidates(tags, candidates, i) ==
    IF i > Len(candidates) THEN Nil
    ELSE IF matches_rule(tags, candidates[i].match) THEN candidates[i].class
    ELSE scan_candidates(tags, candidates, i + 1)

\* find_from without the early return: the last key with a match wins
RECURSIVE find_from_last(_, _, _, _)
find_from_last(tags, order, lookup, i) ==
    IF i > Len(order) THEN Nil
    ELSE LET rest == find_from_last(tags, order, lookup, i + 1)
             key  == order[i]
         IN  IF rest # Nil THEN rest
             ELSE IF key \in DOMAIN lookup THEN scan_candidates(tags, lookup[key], 1)
             ELSE Nil

\* find_from that gives up after the first key that has a bucket
RECURSIVE find_from_first_key_only(_, _, _, _)
find_from_first_key_only(tags, order, lookup, i) ==
    IF i > Len(order) THEN Nil
    ELSE LET key == order[i]
         IN  IF key \in DOMAIN lookup
             THEN scan_candidates(tags, lookup[key], 1)
             ELSE find_from_first_key_only(tags, order, lookup, i + 1)

\* the pairs loop over the tags, enumerated in the given order, from the
\* i-th key on
RECURSIVE find_from(_, _, _, _)
find_from(tags, order, lookup, i) ==
    IF i > Len(order) THEN Nil
    ELSE LET key == order[i]
         IN  IF key \in DOMAIN lookup
             THEN LET class == scan_candidates(tags, lookup[key], 1)
                  IN  IF class # Nil THEN class
                      ELSE find_from(tags, order, lookup, i + 1)
             ELSE find_from(tags, order, lookup, i + 1)

\* find_poi_category(object): the class of the category found ({class = c}
\* in the script), Nil for nil
find_poi_category(obj, order, lookup) == find_from(obj.tags, order, lookup, 1)

\* a Lua table without fields
EmptyTable == [ k \in {} |-> Nil ]

\* the fallback keys without amenity
FallbackKeys_no_amenity == {"shop", "leisure", "tourism"}

\* the fallback keys widened to the six keys of the import filter
FallbackKeys_six == {"amenity", "shop", "leisure", "tourism", "office", "craft"}

\* keys whose presence makes a named element a 'misc' POI
FallbackKeys == {"amenity", "shop", "leisure", "tourism"}

\* os.date('!%Y-%m-%dT%H:%M:%SZ', ts): the UTC rendering of ts
format_date(ts) == <<"utc", ts>>

\* grab_tag that leaves the tag in place
grab_tag_keep(tags, k) ==
    [ value |-> IF k \in DOMAIN tags THEN tags[k] ELSE Nil,
      tags  |-> tags ]

\* grab_tag that takes every tag out
grab_tag_clear(tags, k) ==
    [ value |-> IF k \in DOMAIN tags THEN tags[k] ELSE Nil,
      tags  |-> EmptyTable ]

\* object:grab_tag(k): the value of tag k, and the tags without it
grab_tag(tags, k) ==
    [ value |-> IF k \in DOMAIN tags THEN tags[k] ELSE Nil,
      tags  |-> [ x \in DOMAIN tags \ {k} |-> tags[x] ] ]

with_class(fields, class) ==
    [ k \in DOMAIN fields \cup {"class"} |-> IF k = "class" THEN class ELSE fields[k] ]

\* process_poi without the name check
process_poi_no_name_check(obj, order, lookup) ==
    LET grabbed  == grab_tag(obj.tags, "name")
        obj2     == [ obj EXCEPT !.tags = grabbed.tags ]
        fields   == [ name      |-> grabbed.value,
                      tags      |-> obj2.tags,
                      version   |-> obj2.version,
                      timestamp |-> format_date(obj2.timestamp) ]
        category == find_poi_category(obj2, order, lookup)
    IN  IF category # Nil
        THEN [ record |-> with_class(fields, category), object |-> obj2 ]
        ELSE IF FallbackKeys \cap DOMAIN obj2.tags # {}
        THEN [ record |-> with_class(fields, "misc"), object |-> obj2 ]
        ELSE [ record |-> EmptyTable, object |-> obj2 ]

\* process_poi(object), pairs enumerating object.tags in the given order:
\* the table returned and the object as the call leaves it
process_poi(obj, order, lookup) ==
    IF "name" \notin DOMAIN obj.tags
    THEN [ record |-> EmptyTable, object |-> obj ]
    ELSE LET grabbed  == grab_tag(obj.tags, "name")
             obj2     == [ obj EXCEPT !.tags = grabbed.tags ]
             fields   == [ name      |-> grabbed.value,
                           tags      |-> obj2.tags,
                           version   |-> obj2.version,
                           timestamp |-> format_date(obj2.timestamp) ]
             category == find_poi_category(obj2, order, lookup)
         IN  IF category # Nil
             THEN [ record |-> with_class(fields, category), object |-> obj2 ]
             ELSE IF FallbackKeys \cap DOMAIN obj2.tags # {}
             THEN [ record |-> with_class(fields, "misc"), object |-> obj2 ]
             ELSE [ record |-> EmptyTable, object |-> obj2 ]

\* the orders in which the pairs loop of find_poi_category may run for obj
\* (the loop runs, over the tags left after grab_tag, only for named elements)
IterOrders(obj) ==
    IF "name" \in DOMAIN obj.tags
    THEN Orders(grab_tag(obj.tags, "name").tags)
    ELSE { <<>> }

\* the orders the pairs loop may run in when e is handed to its callback
\* (process_way does not call process_poi for a way that is not a closed
\* building)
CallOrders(e) ==
    IF e.kind = "way" /\ ~(e.is_closed /\ "building" \in DOMAIN e.tags)
    THEN { <<>> }
    ELSE IterOrders(e)

with_geom(rec, geom) ==
    [ k \in DOMAIN rec \cup {"geom"} |-> IF k = "geom" THEN geom ELSE rec[k] ]

\* ------------------------------------------------------------------------
\* Actions
\* ------------------------------------------------------------------------

Init ==
    /\ pc = "load"
    /\ poi_mapping \in Tables
    /\ poi_lookup = EmptyTable
    /\ element = NoElement
    /\ object = NoElement
    /\ iter = <<>>
    /\ record = EmptyTable
    /\ inserted = {}
    /\ pois = {}
    /\ file = {}
    /\ todo = {}
    /\ OthersIdle

\* osm2pgsql runs the chunk: the index is built and sorted, or the chunk
\* raises on match[1][1] of an empty match and the import stops
LoadScript ==
    /\ pc = "load"
    /\ LET built == build_lookup(poi_mapping)
       IN  IF built.error
           THEN /\ pc' = "aborted"
                /\ poi_lookup' = built.lookup
           ELSE /\ pc' = "ready"
                /\ poi_lookup' \in sort_buckets(built.lookup)
    /\ UNCHANGED <<poi_mapping, element, object, iter, record, inserted, pois, file, todo>>
    /\ UNCHANGED otherPrograms

\* Each behaviour of Spec hands one element to one callback: the callbacks
\* read nothing an earlier callback wrote (the global 'record' is assigned
\* before it is read), so a call is a function of the index and the element.

\* pois:insert(record) for the rows a callback inserted for element e
insert(e, rows) == pois \cup { [ element |-> e, record |-> r ] : r \in rows }

\* process_node that tests a record left by an earlier call when process_poi
\* returns no fields
process_node_stale(e, order) ==
    LET res == process_poi(e, order, poi_lookup)
    IN  /\ element' = e
        /\ object' = res.object
        /\ iter' = order
        /\ IF "class" \in DOMAIN res.record
           THEN /\ record' = with_geom(res.record, "as_point")
                /\ inserted' = { record' }
           ELSE /\ record' = record
                /\ inserted' = IF "class" \in DOMAIN record THEN { record } ELSE {}
        /\ pois' = insert(e, inserted')
        /\ UNCHANGED poi_lookup

\* process_node that takes the first candidate out of every bucket once a
\* class was found
process_node_consumes(e, order) ==
    LET res == process_poi(e, order, poi_lookup)
    IN  /\ element' = e
        /\ object' = res.object
        /\ iter' = order
        /\ IF "class" \in DOMAIN res.record
           THEN /\ record' = with_geom(res.record, "as_point")
                /\ inserted' = { record' }
                /\ poi_lookup' = [ k \in DOMAIN poi_lookup |-> Tail(poi_lookup[k]) ]
           ELSE /\ record' = res.record
                /\ inserted' = {}
                /\ UNCHANGED poi_lookup
        /\ pois' = insert(e, inserted')

\* process_node without the test of record.class
process_node_always_inserts(e, order) ==
    LET res == process_poi(e, order, poi_lookup)
    IN  /\ element' = e
        /\ object' = res.object
        /\ iter' = order
        /\ record' = with_geom(res.record, "as_point")
        /\ inserted' = { record' }
        /\ pois' = insert(e, inserted')
        /\ UNCHANGED poi_lookup

\* osm2pgsql.process_node(object)
process_node(e, order) ==
    LET res == process_poi(e, order, poi_lookup)
    IN  /\ element' = e
        /\ object' = res.object
        /\ iter' = order
        /\ IF "class" \in DOMAIN res.record
           THEN /\ record' = with_geom(res.record, "as_point")
                /\ inserted' = { record' }
           ELSE /\ record' = res.record
                /\ inserted' = {}
        /\ pois' = insert(e, inserted')
        /\ UNCHANGED poi_lookup

\* process_way without the test of is_closed and building
process_way_unguarded(e, order) ==
    LET res == process_poi(e, order, poi_lookup)
    IN  /\ element' = e
        /\ object' = res.object
        /\ iter' = order
        /\ IF "class" \in DOMAIN res.record
           THEN /\ record' = with_geom(res.record, "centroid")
                /\ inserted' = { record' }
           ELSE /\ record' = res.record
                /\ inserted' = {}
        /\ pois' = insert(e, inserted')
        /\ UNCHANGED poi_lookup

\* osm2pgsql.process_way(object)
process_way(e, order) ==
    IF e.is_closed /\ "building" \in DOMAIN e.tags
    THEN LET res == process_poi(e, order, poi_lookup)
         IN  /\ element' = e
             /\ object' = res.object
             /\ iter' = order
             /\ IF "class" \in DOMAIN res.record
                THEN /\ record' = with_geom(res.record, "centroid")
                     /\ inserted' = { record' }
                ELSE /\ record' = res.record
                     /\ inserted' = {}
             /\ pois' = insert(e, inserted')
             /\ UNCHANGED poi_lookup
    ELSE /\ element' = e
         /\ object' = e
         /\ iter' = <<>>
         /\ inserted' = {}
         /\ UNCHANGED <<record, pois, poi_lookup>>

ProcessNode ==
    /\ pc = "ready"
    /\ \E e \in Elements :
          /\ e.kind = "node"
          /\ \E order \in CallOrders(e) : process_node(e, order)
    /\ pc' = "done"
    /\ UNCHANGED <<poi_mapping, file, todo>>
    /\ UNCHANGED otherPrograms

ProcessWay ==
    /\ pc = "ready"
    /\ \E e \in Elements :
          /\ e.kind = "way"
          /\ \E order \in CallOrders(e) : process_way(e, order)
    /\ pc' = "done"
    /\ UNCHANGED <<poi_mapping, file, todo>>
    /\ UNCHANGED otherPrograms

Next == LoadScript \/ ProcessNode \/ ProcessWay

Spec == Init /\ [][Next]_vars

\* ------------------------------------------------------------------------
\* Rule tables with rules on the name tag
\* ------------------------------------------------------------------------

InitNameRules ==
    /\ pc = "load"
    /\ poi_mapping \in NameTables
    /\ poi_lookup = EmptyTable
    /\ element = NoElement
    /\ object = NoElement
    /\ iter = <<>>
    /\ record = EmptyTable
    /\ inserted = {}
    /\ pois = {}
    /\ file = {}
    /\ todo = {}
    /\ OthersIdle

SpecNameRules == InitNameRules /\ [][Next]_vars

\* ------------------------------------------------------------------------
\* An input file of several elements, processed in any order
\* ------------------------------------------------------------------------

\* rule tables of one rule
StreamTables == { MkTable(<<r>>, {1}) : r \in Rules }

\* elements of the input files: name, shop, cuisine and building tags with
\* one value each
StreamElements ==
    { e \in Elements : \A k \in DOMAIN e.tags :
        k \notin OtherKeys \ {"building"} /\ e.tags[k] \in {"ACME", "bakery", "yes"} }

\* an element of a file: the element and the order in which pairs() will
\* enumerate its tags in this run
StreamInputs ==
    UNION { { [ element |-> e, order |-> o ] : o \in CallOrders(e) } : e \in StreamElements }

\* the sets of at most n inputs
RECURSIVE UpTo(_)
UpTo(n) ==
    IF n = 0 THEN { {} }
    ELSE LET less == UpTo(n - 1)
         IN  less \cup { f \cup {x} : f \in less, x \in StreamInputs }

\* input files: at most MaxElements elements, each element once
StreamFiles ==
    { f \in UpTo(MaxElements) : \A x, y \in f : x.element = y.element => x = y }

InitStream ==
    /\ pc = "load"
    /\ poi_mapping \in StreamTables
    /\ poi_lookup = EmptyTable
    /\ element = NoElement
    /\ object = NoElement
    /\ iter = <<>>
    /\ record = EmptyTable
    /\ inserted = {}
    /\ pois = {}
    /\ file \in StreamFiles
    /\ todo = file
    /\ OthersIdle

\* osm2pgsql hands the next node of the file to process_node
StreamNode ==
    /\ pc = "ready"
    /\ \E x \in todo :
          /\ x.element.kind = "node"
          /\ process_node(x.element, x.order)
          /\ todo' = todo \ {x}
    /\ UNCHANGED <<pc, poi_mapping, file>>
    /\ UNCHANGED otherPrograms

\* osm2pgsql hands the next way of the file to process_way
StreamWay ==
    /\ pc = "ready"
    /\ \E x \in todo :
          /\ x.element.kind = "way"
          /\ process_way(x.element, x.order)
          /\ todo' = todo \ {x}
    /\ UNCHANGED <<pc, poi_mapping, file>>
    /\ UNCHANGED otherPrograms

NextStream == LoadScript \/ StreamNode \/ StreamWay

SpecStream == InitStream /\ [][NextStream]_vars

\* ------------------------------------------------------------------------
\* Vocabulary of the properties
\* ------------------------------------------------------------------------

\* positions <<category, match>> of the rules the table declares
Declared ==
    { d \in (1..Len(poi_mapping)) \X (1..(MaxRules + 1)) :
        d[2] <= Len(poi_mapping[d[1]].matches) }

RuleAt(d) == poi_mapping[d[1]].matches[d[2]]

ClassAt(d) == poi_mapping[d[1]].class

\* number of pairs of a rule that expect a literal value
NonWild(r) == Cardinality({ i \in DOMAIN r : r[i][2] # "*" })

\* every pair of the rule holds on the tags
RuleHolds(tags, r) ==
    \A i \in DOMAIN r :
        /\ r[i][1] \in DOMAIN tags
        /\ r[i][2] = "*" \/ tags[r[i][1]] = r[i][2]

\* the class a returned table carries, Nil when it carries none
ClassOf(rec) == IF "class" \in DOMAIN rec THEN rec.class ELSE Nil

\* a callback has run and it called process_poi
Classified ==
    /\ pc = "done"
    /\ element.kind = "node" \/ (element.is_closed /\ "building" \in DOMAIN element.tags)

Named == "name" \in DOMAIN element.tags

\* indexes of the candidates of bucket k whose pairs all hold on the tags
Matching(tags, k) ==
    { i \in DOMAIN poi_lookup[k] : RuleHolds(tags, poi_lookup[k][i].match) }

Min(S) == CHOOSE i \in S : \A j \in S : i <= j

\* ------------------------------------------------------------------------
\* Properties
\* ------------------------------------------------------------------------

\* C1: an element whose tags have no name key gets no class from
\* process_poi and process_node / process_way insert no record for it,
\* whatever its other tags and whatever the rule table.
C1_NoNameNoRecord ==
    (pc = "done" /\ ~Named) =>
        /\ ClassOf(record) = Nil
        /\ inserted = {}
        /\ ClassOf(process_poi(element, <<>>, poi_lookup).record) = Nil

\* C1 witness: a nameless node whose tags satisfy a rule of the table and
\* hold a fallback key has been processed.
C1_Witness ==
    /\ pc = "done"
    /\ ~Named
    /\ element.kind = "node"
    /\ "shop" \in DOMAIN element.tags
    /\ \E d \in Declared : RuleHolds(element.tags, RuleAt(d))

\* C2: matches_rule(tags, rule) is true exactly when every pair of the rule
\* has its key present in tags and expects '*' or the very value of the tag;
\* a tag value '*' is an ordinary value.
C2_MatchesRuleIff ==
    (pc = "done") =>
        \A d \in Declared :
            /\ matches_rule(element.tags, RuleAt(d)) <=> RuleHolds(element.tags, RuleAt(d))
            /\ matches_rule(object.tags, RuleAt(d)) <=> RuleHolds(object.tags, RuleAt(d))

\* C2 witness: a rule expecting the literal "bakery" was tested against a
\* tag holding the literal "*" and against one holding "Bakery", and a rule
\* expecting '*' against a present key.
C2_Witness ==
    /\ Classified
    /\ Named
    /\ \E d \in Declared : \E i \in DOMAIN RuleAt(d) :
          /\ RuleAt(d)[i][2] = "bakery"
          /\ RuleAt(d)[i][1] \in DOMAIN object.tags
          /\ object.tags[RuleAt(d)[i][1]] = "*"
          /\ ~matches_rule(object.tags, RuleAt(d))
    /\ \E d \in Declared : \E i \in DOMAIN RuleAt(d) :
          /\ RuleAt(d)[i][2] = "*"
          /\ RuleAt(d)[i][1] \in DOMAIN object.tags
          /\ object.tags[RuleAt(d)[i][1]] = "Bakery"
          /\ matches_rule(object.tags, RuleAt(d))

\* the keys, by position in the enumeration, whose bucket holds a candidate
\* that matches
KeysWithMatch ==
    { i \in DOMAIN iter :
        iter[i] \in DOMAIN poi_lookup /\ Matching(object.tags, iter[i]) # {} }

\* class of the first matching candidate of the first enumerated key that
\* has one
FirstKeyFirstRule ==
    IF KeysWithMatch = {} THEN Nil
    ELSE LET k == iter[Min(KeysWithMatch)]
         IN  poi_lookup[k][Min(Matching(object.tags, k))].class

\* C3: for a named element find_poi_category returns the class of the
\* first matching candidate, in sorted bucket order, of the first key in
\* enumeration order whose bucket has a matching candidate; when no key
\* has one it returns nil (the class is then 'misc' or absent).
C3_FirstKeyFirstRule ==
    (Classified /\ Named) =>
        /\ find_poi_category(object, iter, poi_lookup) = FirstKeyFirstRule
        /\ IF FirstKeyFirstRule # Nil
           THEN ClassOf(record) = FirstKeyFirstRule
           ELSE ClassOf(record) \in {Nil, "misc"}

\* C3 witness: the class returned comes from the first enumerated key
\* although a key enumerated later has a matching candidate of strictly
\* higher specificity and of another class.
C3_Witness ==
    /\ Classified
    /\ Named
    /\ KeysWithMatch # {}
    /\ ClassOf(record) = FirstKeyFirstRule
    /\ \E i \in KeysWithMatch : \E j \in Matching(object.tags, iter[i]) :
          LET first == poi_lookup[iter[Min(KeysWithMatch)]]
                                 [Min(Matching(object.tags, iter[Min(KeysWithMatch)]))]
              later == poi_lookup[iter[i]][j]
          IN  /\ i > Min(KeysWithMatch)
              /\ NonWild(later.match) > NonWild(first.match)
              /\ later.class # first.class

\* C4: after the index is built every bucket is ordered by descending
\* specificity and, at equal specificity, by descending pair count.
C4_BucketsSorted ==
    (pc \in {"ready", "done"}) =>
        \A k \in DOMAIN poi_lookup : \A i, j \in DOMAIN poi_lookup[k] :
            i < j =>
                LET a == poi_lookup[k][i].match
                    b == poi_lookup[k][j].match
                IN  \/ NonWild(a) > NonWild(b)
                    \/ NonWild(a) = NonWild(b) /\ Len(a) >= Len(b)

\* C4 witness: a bucket whose sorted order differs from the order of
\* declaration.
C4_Witness ==
    /\ pc = "ready"
    /\ \E k \in DOMAIN poi_lookup :
          /\ Len(poi_lookup[k]) >= 2
          /\ poi_lookup[k] # build_lookup(poi_mapping).lookup[k]

\* C5: in every bucket, stopping at the first matching candidate yields a
\* candidate of maximal specificity among the matching candidates of the
\* bucket; when the bucket is the one consulted, that is the class returned.
C5_FirstMatchMostSpecific ==
    (Classified /\ Named) =>
        \A k \in DOMAIN poi_lookup :
            LET m == Matching(object.tags, k)
                best == { i \in m : \A j \in m :
                            NonWild(poi_lookup[k][i].match) >= NonWild(poi_lookup[k][j].match) }
            IN  m # {} =>
                  /\ scan_candidates(object.tags, poi_lookup[k], 1)
                        \in { poi_lookup[k][i].class : i \in best }
                  /\ (KeysWithMatch # {} /\ iter[Min(KeysWithMatch)] = k)
                        => ClassOf(record) \in { poi_lookup[k][i].class : i \in best }

\* C5 witness: two rules of different classes bucketed under the same key
\* both match, the less specific one was declared first, and the class
\* returned is that of the more specific one.
C5_Witness ==
    /\ Classified
    /\ Named
    /\ \E d1, d2 \in Declared :
          /\ d1[1] < d2[1]
          /\ RuleAt(d1)[1][1] = RuleAt(d2)[1][1]
          /\ RuleHolds(object.tags, RuleAt(d1))
          /\ RuleHolds(object.tags, RuleAt(d2))
          /\ NonWild(RuleAt(d1)) < NonWild(RuleAt(d2))
          /\ ClassOf(record) = ClassAt(d2)

\* candidates of the whole index
RECURSIVE SumLen(_, _)
SumLen(lookup, keys) ==
    IF keys = {} THEN 0
    ELSE LET k == CHOOSE x \in keys : TRUE
         IN  Len(lookup[k]) + SumLen(lookup, keys \ {k})

TotalCandidates == SumLen(poi_lookup, DOMAIN poi_lookup)

\* the candidates of a sequence that have the specificity and the pair
\* count of c, in the order of the sequence
Peers(candidates, c) ==
    LET same(x) == NonWild(x.match) = NonWild(c.match) /\ Len(x.match) = Len(c.match)
    IN  SelectSeq(candidates, same)

\* C6: rules registered under the same key with identical specificity and
\* identical pair count keep, in the sorted bucket, the relative order of
\* their declaration in the rule table (the sort is stable).
C6_StableSort ==
    (pc \in {"ready", "done"}) =>
        \A k \in DOMAIN poi_lookup : \A i \in DOMAIN poi_lookup[k] :
            Peers(poi_lookup[k], poi_lookup[k][i])
                = Peers(build_lookup(poi_mapping).lookup[k], poi_lookup[k][i])

\* C7: index construction registers every declared rule exactly once, in
\* the bucket of the key of its first pair and in no other bucket, with
\* the class of its category; the candidates number as many as the rules.
C7_RegisteredOnceUnderFirstKey ==
    (pc \in {"ready", "done"}) =>
        /\ DOMAIN poi_lookup = { RuleAt(d)[1][1] : d \in Declared }
        /\ TotalCandidates = Cardinality(Declared)
        /\ \A k \in DOMAIN poi_lookup : \A d \in Declared :
              Cardinality({ i \in DOMAIN poi_lookup[k] :
                              /\ poi_lookup[k][i].match = RuleAt(d)
                              /\ poi_lookup[k][i].class = ClassAt(d) })
                = IF RuleAt(d)[1][1] = k
                  THEN Cardinality({ e \in Declared :
                                       RuleAt(e) = RuleAt(d) /\ ClassAt(e) = ClassAt(d) })
                  ELSE 0

\* C7 witness: a table of two categories one of whose rules has two pairs
\* on different keys; the key of its second pair has no bucket.
C7_Witness ==
    /\ pc = "ready"
    /\ Len(poi_mapping) = 2
    /\ \E d \in Declared :
          /\ Len(RuleAt(d)) = 2
          /\ RuleAt(d)[2][1] \notin DOMAIN poi_lookup
          /\ \E i \in DOMAIN poi_lookup[RuleAt(d)[1][1]] :
                poi_lookup[RuleAt(d)[1][1]][i].match = RuleAt(d)

\* C8: a rule table holding a rule with an empty pair sequence makes the
\* chunk raise while the index is built: no callback ever runs, the rule is
\* not passed over, and the index used for classification is complete.
C8_EmptyRuleAborts ==
    /\ (pc # "load") =>
          ((\E d \in Declared : Len(RuleAt(d)) = 0) <=> pc = "aborted")
    /\ (pc = "aborted") =>
          /\ element = NoElement
          /\ object = NoElement
          /\ record = EmptyTable
          /\ inserted = {}
    /\ (pc = "done") =>
          /\ \A d \in Declared : Len(RuleAt(d)) > 0
          /\ TotalCandidates = Cardinality(Declared)

\* C8 witness: the chunk raised on an empty rule declared after another
\* rule, which was registered already.
C8_Witness ==
    /\ pc = "aborted"
    /\ poi_lookup # EmptyTable
    /\ \E d \in Declared : Len(RuleAt(d)) = 0

\* C9: two tag mappings holding the same pairs receive the same class
\* whatever the order in which their keys are enumerated: the class the
\* element got is the class it gets under every other enumeration order.
C9_OrderIndependent ==
    (Classified /\ Named) =>
        \A order \in IterOrders(element) :
            ClassOf(process_poi(element, order, poi_lookup).record) = ClassOf(record)

\* position of key k in the enumeration
PosOf(k) == CHOOSE i \in DOMAIN iter : iter[i] = k

\* C10 as stated: for a named element, when the tags match all pairs of a
\* rule R and no rule of higher specificity than R registered under a key
\* iterated earlier also matches, the class assigned is R's class.
C10_AsStated ==
    (Classified /\ Named) =>
        \A d \in Declared :
            ( /\ RuleHolds(element.tags, RuleAt(d))
              /\ ~\E e \in Declared :
                    /\ RuleHolds(element.tags, RuleAt(e))
                    /\ NonWild(RuleAt(e)) > NonWild(RuleAt(d))
                    /\ PosOf(RuleAt(e)[1][1]) < PosOf(RuleAt(d)[1][1]) )
            => ClassOf(record) = ClassAt(d)

\* C10 amended: for a named element, when the tags left once the name is
\* taken out match all pairs of a rule R, no rule registered under a key
\* iterated earlier than R's first key matches, and no rule placed before R
\* in R's own sorted bucket matches, the class assigned is R's class.
C10_FirstApplicableRule ==
    (Classified /\ Named) =>
        \A k \in DOMAIN poi_lookup : \A p \in DOMAIN poi_lookup[k] :
            ( /\ RuleHolds(object.tags, poi_lookup[k][p].match)
              /\ \A i \in DOMAIN iter :
                    (i < PosOf(k) /\ iter[i] \in DOMAIN poi_lookup)
                        => Matching(object.tags, iter[i]) = {}
              /\ \A q \in Matching(object.tags, k) : q >= p )
            => ClassOf(record) = poi_lookup[k][p].class

\* C10 witness: the rule R that decides the class is not the only one that
\* matches: a rule of another class follows it in its bucket and one of
\* another class sits under a key iterated later.
C10_Witness ==
    /\ Classified
    /\ Named
    /\ \E k \in DOMAIN poi_lookup : \E p \in DOMAIN poi_lookup[k] :
          /\ RuleHolds(object.tags, poi_lookup[k][p].match)
          /\ PosOf(k) = Min(KeysWithMatch)
          /\ p = Min(Matching(object.tags, k))
          /\ ClassOf(record) = poi_lookup[k][p].class
          /\ \/ \E q \in Matching(object.tags, k) :
                   q > p /\ poi_lookup[k][q].class # poi_lookup[k][p].class
             \/ \E i \in KeysWithMatch :
                   /\ i > PosOf(k)
                   /\ \E q \in Matching(object.tags, iter[i]) :
                         poi_lookup[iter[i]][q].class # poi_lookup[k][p].class

\* the rules of the table whose pairs all hold on the tags the element was
\* supplied with
HoldingRules == { d \in Declared : RuleHolds(element.tags, RuleAt(d)) }

\* C11: a named element that no rule of the table matches gets the class
\* 'misc' whenever its tags hold one of amenity, shop, leisure, tourism,
\* whatever the value of that key.
C11_FallbackMisc ==
    (Classified /\ Named /\ HoldingRules = {}
        /\ DOMAIN element.tags \cap {"amenity", "shop", "leisure", "tourism"} # {})
    => /\ ClassOf(record) = "misc"
       /\ \E r \in inserted : r.class = "misc"

\* C11 witness: a node with a name and amenity=restaurant was processed
\* under a table that has rules, none of them on amenity.
C11_Witness ==
    /\ pc = "done"
    /\ element.kind = "node"
    /\ DOMAIN element.tags = {"name", "amenity"}
    /\ element.tags["amenity"] = "restaurant"
    /\ Declared # {}
    /\ ClassOf(record) = "misc"

\* C12: a named element that no rule matches and whose tags hold none of
\* amenity, shop, leisure, tourism gets no class and no record, also when
\* it holds office or craft.
C12_NoFallbackNoRecord ==
    (Classified /\ Named /\ HoldingRules = {}
        /\ DOMAIN element.tags \cap {"amenity", "shop", "leisure", "tourism"} = {})
    => /\ ClassOf(record) = Nil
       /\ inserted = {}
       /\ pois = {}

\* C12 witness: a named node whose only other tag is office was processed
\* and nothing was inserted.
C12_Witness ==
    /\ pc = "done"
    /\ element.kind = "node"
    /\ DOMAIN element.tags = {"name", "office"}
    /\ Declared # {}
    /\ inserted = {}

\* the fields of a record that was given a class and a geometry
RecordFields == {"name", "tags", "version", "timestamp", "class", "geom"}

TagsWithoutName == [ k \in DOMAIN element.tags \ {"name"} |-> element.tags[k] ]

PoiCalled ==
    /\ pc = "done"
    /\ \/ element.kind = "node"
       \/ element.is_closed /\ "building" \in DOMAIN element.tags

C16_FullTagsTested ==
    (Classified /\ Named) =>
        \A d \in Declared :
            RuleHolds(element.tags, RuleAt(d)) => matches_rule(object.tags, RuleAt(d))

\* the rows element x of the file gets when it is the only element processed
Alone(x) ==
    LET e   == x.element
        res == process_poi(e, x.order, poi_lookup)
    IN  IF e.kind = "way" /\ ~(e.is_closed /\ "building" \in DOMAIN e.tags)
        THEN {}
        ELSE IF "class" \in DOMAIN res.record
        THEN { [ element |-> e,
                 record  |-> with_geom(res.record,
                                IF e.kind = "node" THEN "as_point" ELSE "centroid") ] }
        ELSE {}

\* C17: whatever the order in which the elements of a file are handed to
\* process_node / process_way, the records inserted so far are, for each
\* element processed so far, the record that element gets when processed
\* alone; so every order ends with the same set of records.
C17_OrderOfElementsIrrelevant ==
    (pc = "ready") => pois = UNION { Alone(x) : x \in file \ todo }

\* C17 witness: a file of two elements was processed to the end, one of them
\* got a record, and the element processed last got none.
C17_Witness ==
    /\ pc = "ready"
    /\ Cardinality(file) = 2
    /\ todo = {}
    /\ Cardinality(pois) = 1
    /\ record = EmptyTable
    /\ \A p \in pois : p.element # element

\* C18: once the index is built, no call of process_node or process_way
\* (and so none of process_poi, find_poi_category, matches_rule) changes
\* poi_lookup: no bucket or candidate is added, removed, reordered, altered.
C18_IndexReadOnly ==
    [][ (pc = "ready") => poi_lookup' = poi_lookup ]_vars

\* C18 witness: a file of two elements was processed to the end under a
\* built index, both elements were classified by a rule and stored.
C18_Witness ==
    /\ pc = "ready"
    /\ Cardinality(file) = 2
    /\ todo = {}
    /\ DOMAIN poi_lookup # {}
    /\ Cardinality(pois) = 2
    /\ \A p \in pois : p.record.class \notin {Nil, "misc"}

\* C19: process_node hands a record to storage exactly when process_poi
\* gave the node a class; without a class nothing is inserted; an inserted
\* record carries the class process_poi returned and the node's version.
C19_InsertedIffClass ==
    (pc = "done" /\ element.kind = "node") =>
        LET returned == process_poi(element, iter, poi_lookup).record
        IN  /\ (inserted # {}) <=> (ClassOf(returned) # Nil)
            /\ Cardinality(inserted) <= 1
            /\ pois = { [ element |-> element, record |-> r ] : r \in inserted }
            /\ \A r \in inserted :
                  /\ r.class # Nil
                  /\ r.class = ClassOf(returned)
                  /\ r.version = element.version
                  /\ r = record

\* C19 witness: a node was stored with the class 'misc' and its version.
C19_Witness ==
    /\ pc = "done"
    /\ element.kind = "node"
    /\ DOMAIN element.tags = {"name", "tourism"}
    /\ \E r \in inserted : r.class = "misc" /\ r.version = element.version
    /\ Cardinality(pois) = 1

\* C20: under a table without rules on the key name, a named element gets
\* the class of some rule whose pairs all hold on its tags whenever a rule
\* of the table holds on them, and 'misc' or no class only when none does.
C20_ClassOfAHoldingRule ==
    (Classified /\ Named /\ \A d \in Declared : \A i \in DOMAIN RuleAt(d) : RuleAt(d)[i][1] # "name") =>
        /\ (HoldingRules # {}) => ClassOf(record) \in { ClassAt(d) : d \in HoldingRules }
        /\ (ClassOf(record) \in {Nil, "misc"}) => HoldingRules = {}

\* C20 witness: a node with a name, a shop and a cuisine tag got the class
\* of a rule on the key enumerated second, the bucket of the key enumerated
\* first holding no rule that matches.
C20_Witness ==
    /\ pc = "done"
    /\ element.kind = "node"
    /\ DOMAIN element.tags = {"name", "shop", "cuisine"}
    /\ Len(iter) = 2
    /\ iter[1] \in DOMAIN poi_lookup
    /\ Matching(object.tags, iter[1]) = {}
    /\ HoldingRules # {}
    /\ ClassOf(record) \in { ClassAt(d) : d \in HoldingRules }

\* ------------------------------------------------------------------------
\* The import pipeline: osmium tags-filter, then osm2pgsql with the script
\* ------------------------------------------------------------------------

\* keys named by the expressions of the osmium tags-filter call
FilterKeys == {"amenity", "shop", "leisure", "tourism", "office", "craft"}

\* tags of the elements of the pipeline's input: a name may be empty
PipelineTagMaps(kind) ==
    LET keys == IF kind = "way" THEN {"name", "building", "cuisine"}
                ELSE {"name", "shop", "cuisine", "office"}
        val(k) == IF k = "name" THEN {"ACME", ""}
                  ELSE IF k \in {"building", "office"} THEN {"yes"}
                  ELSE {"bakery"}
    IN  UNION { { t \in [ks -> {"ACME", "", "yes", "bakery"}] :
                    \A k \in ks : t[k] \in val(k) } : ks \in SUBSET keys }

PipelineElements ==
    UNION { [ kind : {kind}, tags : PipelineTagMaps(kind),
              is_closed : IF kind = "way" THEN BOOLEAN ELSE {FALSE},
              version : Versions, timestamp : Timestamps ] : kind \in Kinds }

\* an element of the input file: the element, the order pairs() will
\* enumerate its tags in, and whether it is a node of a way of the file that
\* the filter keeps
PipelineInputs ==
    UNION { [ element : {e}, order : CallOrders(e),
              of_way : IF e.kind = "node" THEN BOOLEAN ELSE {FALSE} ] :
            e \in PipelineElements }

\* a tag list satisfies one of the expressions nw/name= nw/amenity nw/shop
\* nw/leisure nw/tourism nw/office nw/craft: name= asks for a name tag with
\* the empty value, a bare key for a tag with that key
matches_filter(tags) ==
    \/ "name" \in DOMAIN tags /\ tags["name"] = ""
    \/ DOMAIN tags \cap FilterKeys # {}

\* osmium tags-filter: the objects that satisfy an expression, and the nodes
\* referenced by the ways that do, each with all its tags
tags_filter(input) ==
    { x \in input : matches_filter(x.element.tags) \/ x.of_way }

InitPipeline ==
    /\ pc = "filter"
    /\ poi_mapping \in StreamTables
    /\ poi_lookup = EmptyTable
    /\ element = NoElement
    /\ object = NoElement
    /\ iter = <<>>
    /\ record = EmptyTable
    /\ inserted = {}
    /\ pois = {}
    /\ file \in { {x} : x \in PipelineInputs }
    /\ todo = {}
    /\ OthersIdle

\* load_osm_data.sh writes the filtered file and hands it to osm2pgsql
TagsFilter ==
    /\ pc = "filter"
    /\ todo' = tags_filter(file)
    /\ pc' = "load"
    /\ UNCHANGED <<poi_mapping, poi_lookup, element, object, iter, record, inserted, pois, file>>
    /\ UNCHANGED otherPrograms

NextPipeline == TagsFilter \/ LoadScript \/ StreamNode \/ StreamWay

SpecPipeline == InitPipeline /\ [][NextPipeline]_vars

\* C21: every record imported into pois comes from an element that has a
\* name tag and at least one of the tags amenity, shop, leisure, tourism,
\* office, craft.
C21_ImportedHaveNameAndPoiTag ==
    \A p \in pois :
        /\ "name" \in DOMAIN p.element.tags
        /\ DOMAIN p.element.tags \cap {"amenity", "shop", "leisure", "tourism", "office", "craft"} # {}

\* ------------------------------------------------------------------------
\* The API server: GET /api/pois and GET /api/element/:type/:id
\* ------------------------------------------------------------------------

\* the classifier is not the program that runs
ClassifierIdle ==
    /\ pc = "off"
    /\ poi_mapping = <<>>
    /\ poi_lookup = EmptyTable
    /\ element = NoElement
    /\ object = NoElement
    /\ iter = <<>>
    /\ record = EmptyTable
    /\ inserted = {}
    /\ pois = {}
    /\ file = {}
    /\ todo = {}

\* most comma-separated parts of a bbox string
MaxParts == 5

\* the number that is not a number: an integer no numeral of the model spells
NaN == -1000

\* the texts between the commas of a bbox string
BboxParts == {"-1", "9", "", "abc"}

\* Number(text): a numeral gives its number, the empty text 0, other text NaN
Number(text) ==
    IF text = "-1" THEN -1
    ELSE IF text = "9" THEN 9
    ELSE IF text = "" THEN 0
    ELSE NaN

\* req.query.bbox: undefined, a string (given by bbox.split(',')), or an
\* array when the parameter is repeated
BboxValues ==
    { [ type |-> "undefined" ], [ type |-> "array" ] }
        \cup UNION { [ type : {"string"}, parts : [1..n -> BboxParts] ] : n \in 1..MaxParts }

\* !bbox
falsy_bbox(bbox) ==
    \/ bbox.type = "undefined"
    \/ bbox.type = "string" /\ bbox.parts = <<"">>

\* SQL NULL
Null == "<null>"

\* rows of the pois table: nodes lie at (0, 0), ways at (5, 5); the
\* tags column is NULL or holds a jsonb object
Rows ==
    [ osm_type : {"N", "W"}, osm_id : {12},
      name : {Null, "", "ACME"},
      tags : {[ null |-> TRUE ], [ null |-> FALSE, json |-> [ shop |-> "bakery" ] ]} ]

lon_of(row) == IF row.osm_type = "N" THEN 0 ELSE 5

lat_of(row) == lon_of(row)

\* contents of the pois table: one row at most for an object
DbTables ==
    { t \in SUBSET Rows : \A r1, r2 \in t : r1.osm_type = r2.osm_type => r1 = r2 }

\* the type of a response element taken from the osm_type column as it is
type_name_raw(osm_type) == osm_type

\* row.osm_type === 'N' ? 'node' : row.osm_type === 'W' ? 'way' : 'relation'
type_name(osm_type) ==
    IF osm_type = "N" THEN "node" ELSE IF osm_type = "W" THEN "way" ELSE "relation"

\* tags = row.tags || {}; if (row.name) tags.name = row.name
response_tags(row) ==
    LET tags == IF row.tags.null THEN EmptyTable ELSE row.tags.json
    IN  IF row.name # Null /\ row.name # ""
        THEN [ k \in DOMAIN tags \cup {"name"} |-> IF k = "name" THEN row.name ELSE tags[k] ]
        ELSE tags

\* the element of the response made from a row
to_element(row) ==
    [ type |-> type_name(row.osm_type), id |-> row.osm_id,
      lat |-> lat_of(row), lon |-> lon_of(row), tags |-> response_tags(row) ]

Lesser(a, b) == IF a <= b THEN a ELSE b

Greater(a, b) == IF a >= b THEN a ELSE b

\* ST_Contains(ST_MakeEnvelope(west, south, east, north, 4326), geom): the
\* point lies in the interior of the rectangle
st_contains(c, row) ==
    /\ Lesser(c[1], c[3]) < lon_of(row) /\ lon_of(row) < Greater(c[1], c[3])
    /\ Lesser(c[2], c[4]) < lat_of(row) /\ lat_of(row) < Greater(c[2], c[4])

respond(status, body) == responses' = Append(responses, [ status |-> status, body |-> body ])

pool_query(params) == queries' = Append(queries, params)

InitApi ==
    /\ ClassifierIdle
    /\ ShellOff
    /\ AppOff
    /\ apiPc = "idle"
    /\ req = Nil
    /\ db_rows \in DbTables
    /\ queries = <<>>
    /\ responses = <<>>

classifierVars == <<pc, poi_mapping, poi_lookup, element, object, iter, record, inserted,
                    pois, file, todo>>

\* what the API server leaves alone
notApi == <<classifierVars, shVars, appVars>>

\* app.get('/api/pois'): the handler up to its await, or to its return
GetPois ==
    /\ apiPc = "idle"
    /\ \E bbox \in BboxValues :
          /\ req' = [ route |-> "pois", bbox |-> bbox ]
          /\ IF falsy_bbox(bbox)
             THEN /\ respond(400, [ error |-> "Missing bbox parameter" ])
                  /\ apiPc' = "closed"
                  /\ UNCHANGED queries
             ELSE IF bbox.type = "array"
             THEN \* bbox.split is not a function: the TypeError is caught
                  /\ respond(500, [ error |-> "Internal server error" ])
                  /\ apiPc' = "closed"
                  /\ UNCHANGED queries
             ELSE LET coords == [ i \in DOMAIN bbox.parts |-> Number(bbox.parts[i]) ]
                  IN  IF Len(coords) # 4 \/ \E i \in DOMAIN coords : coords[i] = NaN
                      THEN /\ respond(400, [ error |-> "Invalid bbox format. Expected: west,south,east,north" ])
                           /\ apiPc' = "closed"
                           /\ UNCHANGED queries
                      ELSE /\ pool_query(coords)
                           /\ apiPc' = "awaiting"
                           /\ UNCHANGED responses
    /\ UNCHANGED db_rows
    /\ UNCHANGED notApi

\* the query of /api/pois resolves with the rows inside the envelope
PoisQueryResolves ==
    /\ apiPc = "awaiting"
    /\ req.route = "pois"
    /\ LET result == { row \in db_rows : st_contains(queries[Len(queries)], row) }
       IN  respond(200, [ elements |-> { to_element(row) : row \in result } ])
    /\ apiPc' = "closed"
    /\ UNCHANGED <<req, db_rows, queries>>
    /\ UNCHANGED notApi

\* the query of /api/pois rejects: the catch block answers
PoisQueryRejects ==
    /\ apiPc = "awaiting"
    /\ req.route = "pois"
    /\ respond(500, [ error |-> "Internal server error" ])
    /\ apiPc' = "closed"
    /\ UNCHANGED <<req, db_rows, queries>>
    /\ UNCHANGED notApi

\* :type and :id segments of a request path
TypeStrings == {"node", "n", "way", "W", "Relation", "r", "constructor", "__proto__", "nodes"}

IdStrings == {"12", "12abc", "7", "abc"}

\* type.toLowerCase()
toLowerCase(type) ==
    IF type = "W" THEN "w" ELSE IF type = "Relation" THEN "relation" ELSE type

Undefined == "undefined"

\* osmTypeMap[key]: the object literal's own keys, and what every object
\* inherits from Object.prototype (as text, the way pg sends a parameter)
osmTypeMap(key) ==
    IF key \in {"node", "n"} THEN "N"
    ELSE IF key \in {"way", "w"} THEN "W"
    ELSE IF key \in {"relation", "r"} THEN "R"
    ELSE IF key = "constructor" THEN "function Object() { [native code] }"
    ELSE IF key = "__proto__" THEN "{}"
    ELSE Undefined

\* parseInt(id): the integer its leading digits spell, NaN without any
parseInt(id) ==
    IF id \in {"12", "12abc"} THEN 12
    ELSE IF id = "7" THEN 7
    ELSE NaN

\* app.get('/api/element/:type/:id'): the handler up to its await or return
GetElement ==
    /\ apiPc = "idle"
    /\ \E type \in TypeStrings, id \in IdStrings :
          /\ req' = [ route |-> "element", type |-> type, id |-> id ]
          /\ LET osmType == osmTypeMap(toLowerCase(type))
             IN  IF osmType = Undefined
                 THEN /\ respond(400, [ error |-> "Invalid type. Use node, way, or relation" ])
                      /\ apiPc' = "closed"
                      /\ UNCHANGED queries
                 ELSE /\ pool_query(<<osmType, parseInt(id)>>)
                      /\ apiPc' = "awaiting"
                      /\ UNCHANGED responses
    /\ UNCHANGED db_rows
    /\ UNCHANGED notApi

\* the query of /api/element resolves (the database accepts an integer id)
ElementQueryResolves ==
    /\ apiPc = "awaiting"
    /\ req.route = "element"
    /\ LET params == queries[Len(queries)]
           result == { row \in db_rows : row.osm_type = params[1] /\ row.osm_id = params[2] }
       IN  /\ params[2] # NaN
           /\ IF result = {}
              THEN respond(404, [ error |-> "Element not found" ])
              ELSE \E row \in result : respond(200, [ elements |-> <<to_element(row)>> ])
    /\ apiPc' = "closed"
    /\ UNCHANGED <<req, db_rows, queries>>
    /\ UNCHANGED notApi

\* the query of /api/element rejects: the catch block answers
ElementQueryRejects ==
    /\ apiPc = "awaiting"
    /\ req.route = "element"
    /\ respond(500, [ error |-> "Internal server error" ])
    /\ apiPc' = "closed"
    /\ UNCHANGED <<req, db_rows, queries>>
    /\ UNCHANGED notApi

NextApi ==
    \/ GetPois
    \/ PoisQueryResolves
    \/ PoisQueryRejects
    \/ GetElement
    \/ ElementQueryResolves
    \/ ElementQueryRejects

SpecApi == InitApi /\ [][NextApi]_vars

\* a request has been received
Received == apiPc \in {"awaiting", "closed"}

\* the bbox is a string of exactly four comma-separated numerals
FourNumbers(bbox) ==
    /\ bbox.type = "string"
    /\ Len(bbox.parts) = 4
    /\ \A i \in DOMAIN bbox.parts : bbox.parts[i] \in {"-1", "9"}

\* C22: GET /api/pois answers 400 and issues no database query whenever
\* bbox is missing or is not exactly four comma-separated numbers; only a
\* bbox of four numbers leads to a query.
C22_BboxValidated ==
    (Received /\ req.route = "pois" /\ ~FourNumbers(req.bbox)) =>
        /\ queries = <<>>
        /\ Len(responses) = 1
        /\ responses[1].status = 400

\* the type names and short forms the element endpoint documents
ValidTypes == {"node", "way", "relation", "n", "w", "r"}

\* C23: GET /api/element/:type/:id answers 400 'Invalid type. Use node,
\* way, or relation' and issues no database query for every type other
\* than node, way, relation, n, w, r compared without regard to case.
C23_InvalidTypeRejected ==
    (Received /\ req.route = "element" /\ toLowerCase(req.type) \notin ValidTypes) =>
        /\ queries = <<>>
        /\ responses = << [ status |-> 400,
                            body   |-> [ error |-> "Invalid type. Use node, way, or relation" ] ] >>

\* the full name of a requested type
FullName(type) ==
    LET t == toLowerCase(type)
    IN  IF t \in {"node", "n"} THEN "node"
        ELSE IF t \in {"way", "w"} THEN "way"
        ELSE "relation"

\* the stored rows a request of the element endpoint asks for: the rows of
\* the requested type whose osm_id is the integer the id segment is read as
Requested ==
    { row \in db_rows :
        /\ row.osm_type = (IF FullName(req.type) = "node" THEN "N"
                            ELSE IF FullName(req.type) = "way" THEN "W" ELSE "R")
        /\ row.osm_id = parseInt(req.id) }

\* C24: for a valid type the element endpoint sends exactly one response:
\* 404 when no stored row has the requested type and id, otherwise 200 with
\* a list of exactly one element, of the requested id, whose type is the
\* full name of the requested type also when n, w or r was asked for; 500
\* when the query failed; and no response while the query is pending.
C24_ElementAnswer ==
    (Received /\ req.route = "element" /\ toLowerCase(req.type) \in ValidTypes) =>
        /\ Len(queries) = 1
        /\ (apiPc = "awaiting") => responses = <<>>
        /\ (apiPc = "closed") =>
              /\ Len(responses) = 1
              /\ LET r == responses[1]
                 IN  \/ r.status = 500 /\ r.body = [ error |-> "Internal server error" ]
                     \/ /\ Requested = {}
                        /\ r.status = 404
                     \/ /\ Requested # {}
                        /\ r.status = 200
                        /\ DOMAIN r.body = {"elements"}
                        /\ Len(r.body.elements) = 1
                        /\ r.body.elements[1].type = FullName(req.type)
                        /\ r.body.elements[1].id = parseInt(req.id)
              /\ (parseInt(req.id) = NaN) => responses[1].status = 500

\* C24 witness: the way 12 was requested as /api/element/W/12 and answered
\* 200 with one element of type way.
C24_Witness ==
    /\ apiPc = "closed"
    /\ req.route = "element"
    /\ req.type = "W"
    /\ req.id = "12"
    /\ Len(responses) = 1
    /\ responses[1].status = 200
    /\ responses[1].body.elements[1].type = "way"

\* the elements of a 200 response
ElementsSent ==
    IF responses = <<>> \/ responses[1].status # 200 THEN {}
    ELSE IF req.route = "pois" THEN responses[1].body.elements
    ELSE { responses[1].body.elements[i] : i \in DOMAIN responses[1].body.elements }

\* the stored row an element of a response was made from
RowOf(e) == CHOOSE row \in db_rows : type_name(row.osm_type) = e.type /\ row.osm_id = e.id

\* C25: for every row returned by either endpoint whose name column is not
\* null, the tags of the response element hold the key name with that
\* value, and every stored tag; also when the stored tags column is null.
C25_NameInTags ==
    \A e \in ElementsSent :
        LET row == RowOf(e)
        IN  /\ (row.name # Null) => ("name" \in DOMAIN e.tags /\ e.tags["name"] = row.name)
            /\ ~row.tags.null =>
                  \A k \in DOMAIN row.tags.json : k \in DOMAIN e.tags /\ e.tags[k] = row.tags.json[k]

\* ------------------------------------------------------------------------
\* A node, a way and a relation that carry the same tags
\* ------------------------------------------------------------------------

\* tag mappings an object of any kind may carry
SharedTagMaps ==
    LET val(k) == IF k = "name" THEN {"ACME"}
                  ELSE IF k = "building" THEN {"yes"}
                  ELSE {"bakery", "Bakery"}
    IN  UNION { { t \in [ks -> {"ACME", "yes", "bakery", "Bakery"}] :
                    \A k \in ks : t[k] \in val(k) } :
                ks \in SUBSET {"name", "shop", "building"} }

\* the object of a kind with given tags
AsKind(kind, tags, closed) ==
    [ kind |-> kind, tags |-> tags, is_closed |-> (kind = "way" /\ closed),
      version |-> CHOOSE v \in Versions : TRUE,
      timestamp |-> CHOOSE ts \in Timestamps : TRUE ]

\* files of a node, a way and a relation with the same tags, which pairs()
\* enumerates in the same order
KindFiles ==
    UNION { { { [ element |-> AsKind(kind, t, closed),
                  order   |-> IF kind = "way" THEN IF closed /\ "building" \in DOMAIN t THEN o ELSE <<>>
                              ELSE o ] : kind \in {"node", "way", "relation"} } :
              closed \in BOOLEAN,
              o \in IF "name" \in DOMAIN t THEN Orders(grab_tag(t, "name").tags) ELSE { <<>> } } :
            t \in SharedTagMaps }

InitKinds ==
    /\ pc = "load"
    /\ poi_mapping \in StreamTables
    /\ poi_lookup = EmptyTable
    /\ element = NoElement
    /\ object = NoElement
    /\ iter = <<>>
    /\ record = EmptyTable
    /\ inserted = {}
    /\ pois = {}
    /\ file \in KindFiles
    /\ todo = file
    /\ OthersIdle

\* osm2pgsql reads a relation of the file: the script defines no
\* osm2pgsql.process_relation, no callback runs
StreamRelation ==
    /\ pc = "ready"
    /\ \E x \in todo :
          /\ x.element.kind = "relation"
          /\ element' = x.element
          /\ object' = x.element
          /\ iter' = <<>>
          /\ inserted' = {}
          /\ todo' = todo \ {x}
    /\ UNCHANGED <<pc, poi_mapping, poi_lookup, record, pois, file>>
    /\ UNCHANGED otherPrograms

NextKinds == LoadScript \/ StreamNode \/ StreamWay \/ StreamRelation

SpecKinds == InitKinds /\ [][NextKinds]_vars

\* the elements of the file processed so far
Processed == { x.element : x \in file \ todo }

\* the elements a record was stored for
Persisted == { p.element : p \in pois }

\* a class awaits a named object with these tags: a rule of the table holds
\* on them or they hold a fallback key
Classifiable(tags) ==
    /\ "name" \in DOMAIN tags
    /\ \/ \E d \in Declared : RuleHolds(tags, RuleAt(d))
       \/ DOMAIN tags \cap {"amenity", "shop", "leisure", "tourism"} # {}

\* C26: a way is persisted only if it is closed and has a building tag; a
\* named way that is open or has no building tag is not persisted although
\* its tags match a rule or hold a fallback key, while the node with the
\* same tags is persisted; a relation is never persisted.
C26_OnlyClosedBuildingWays ==
    (pc = "ready") =>
        /\ \A e \in Persisted :
              /\ e.kind # "relation"
              /\ e.kind = "way" => (e.is_closed /\ "building" \in DOMAIN e.tags)
        /\ \A e \in Processed :
              /\ (e.kind = "node" /\ Classifiable(e.tags)) => e \in Persisted
              /\ (e.kind = "way" /\ e.is_closed /\ "building" \in DOMAIN e.tags /\ Classifiable(e.tags))
                    => e \in Persisted

\* C26 witness: of a node, an open way and a relation all tagged with a
\* name and a shop that a rule matches, only the node was persisted.
C26_Witness ==
    /\ pc = "ready"
    /\ todo = {}
    /\ Cardinality(file) = 3
    /\ \A x \in file : DOMAIN x.element.tags = {"name", "shop"} /\ ~x.element.is_closed
    /\ \E d \in Declared : \A x \in file : RuleHolds(x.element.tags, RuleAt(d))
    /\ Cardinality(Persisted) = 1
    /\ \A e \in Persisted : e.kind = "node"

\* ------------------------------------------------------------------------
\* The shell scripts: load_osm_data.sh and the update script (both set -e)
\* ------------------------------------------------------------------------

\* greatest exit status of an external command
MaxStatus == 2

ExitStatuses == 0..MaxStatus

\* what a command wrote, as the set of phrases (in lower case) it holds
Outputs ==
    { {}, {"up to date"}, {"no new data"}, {"could not connect"}, {"404"},
      {"nodes", "ways", "relations"} }

\* echo "$output" | grep -qi "a\|b": the output holds one of the phrases
grep_qi(phrases, output) == output \cap phrases # {}

\* echo "$output" | grep -q "nodes.*ways.*relations"
grep_stats(output) == {"nodes", "ways", "relations"} \subseteq output

msg(text) == [ text |-> text, n |-> 0 ]

msg_code(text, n) == [ text |-> text, n |-> n ]

\* echo / log of some messages
echo(messages) == sh_out' = sh_out \o messages

\* an external command ended with a status
ran(cmd, status, output) ==
    sh_ran' = Append(sh_ran, [ cmd |-> cmd, status |-> status, output |-> output ])

\* exit N, and the exit set -e forces when a simple command fails
exit(status) == shPc' = "exited" /\ sh_exit' = status

\* NAME=value
assign(name, value) ==
    sh_env' = [ k \in DOMAIN sh_env \cup {name} |-> IF k = name THEN value ELSE sh_env[k] ]

\* what the scripts leave alone
notShell == <<classifierVars, apiVars, appVars>>

\* the environment a script is started in: the variables it reads, with
\* the defaults of the script for those that are unset
Environments(name) ==
    IF name = "load"
    THEN [ OSM_INPUT_FILE  : {"/app/data/utah-latest.osm.pbf",
                              "/data/geofabrik/utah-latest.osm.pbf",
                              "/data/geofabrik/extract.osm.pbf"},
           REPLICATION_URL : {"", "https://example.org/updates"} ]
    ELSE [ MAX_DIFF_SIZE : {"500", "100"} ]

\* the replication URL the script settles on when REPLICATION_URL is empty:
\* [[ =~ geofabrik ]], then [[ =~ ([a-z-]+)-latest\.osm\.pbf ]]
detect_replication_url(input_file) ==
    IF input_file = "/data/geofabrik/utah-latest.osm.pbf"
    THEN "https://download.geofabrik.de/utah-updates"
    ELSE "https://planet.openstreetmap.org/replication/minute/"

InitScripts ==
    /\ ClassifierIdle
    /\ ApiOff
    /\ AppOff
    /\ shPc = "start"
    /\ script \in {"load", "update"}
    /\ sh_env \in Environments(script)
    /\ sh_ran = <<>>
    /\ sh_out = <<>>
    /\ sh_exit = 0

\* load_osm_data.sh: the tools and the input file are looked for
LoadCheck ==
    /\ shPc = "start" /\ script = "load"
    /\ \E osmium, osm2pgsql, input \in BOOLEAN :
          IF ~osmium
          THEN echo(<<msg("Error: osmium-tool is not installed")>>) /\ exit(1)
          ELSE IF ~osm2pgsql
          THEN echo(<<msg("Error: osm2pgsql is not installed")>>) /\ exit(1)
          ELSE IF ~input
          THEN echo(<<msg("Error: Input file not found")>>) /\ exit(1)
          ELSE /\ echo(<<msg("Input file info")>>)
               /\ shPc' = "filter"
               /\ UNCHANGED sh_exit
    /\ UNCHANGED <<script, sh_env, sh_ran>>
    /\ UNCHANGED notShell

\* load_osm_data.sh: osmium tags-filter unless a newer filtered file exists
LoadFilter ==
    /\ shPc = "filter" /\ script = "load"
    /\ \E newer \in BOOLEAN :
          IF newer
          THEN /\ assign("NEED_FILTERING", FALSE)
               /\ echo(<<msg("Filtered file exists and is newer than input")>>)
               /\ shPc' = "lua"
               /\ UNCHANGED <<sh_ran, sh_exit>>
          ELSE \E status \in ExitStatuses, created \in BOOLEAN :
                  /\ assign("NEED_FILTERING", TRUE)
                  /\ ran("osmium tags-filter", status, {})
                  /\ IF status # 0
                     THEN \* set -e
                          echo(<<msg("Running osmium tags-filter")>>) /\ exit(status)
                     ELSE IF ~created
                     THEN /\ echo(<<msg("Running osmium tags-filter"), msg("Filtering complete"),
                                    msg("Error: Filtered file was not created")>>)
                          /\ exit(1)
                     ELSE /\ echo(<<msg("Running osmium tags-filter"), msg("Filtering complete"),
                                    msg("Filtering results")>>)
                          /\ shPc' = "lua"
                          /\ UNCHANGED sh_exit
    /\ UNCHANGED script
    /\ UNCHANGED notShell

\* load_osm_data.sh: the Lua script is looked for and the replication URL
\* is settled
LoadCheckLua ==
    /\ shPc = "lua" /\ script = "load"
    /\ \E lua \in BOOLEAN :
          IF ~lua
          THEN echo(<<msg("Error: Lua script not found")>>) /\ exit(1) /\ UNCHANGED sh_env
          ELSE /\ IF sh_env["REPLICATION_URL"] = ""
                  THEN /\ assign("REPLICATION_URL", detect_replication_url(sh_env["OSM_INPUT_FILE"]))
                       /\ echo(<<msg("Auto-detecting replication URL"),
                                 msg("Importing data with osm2pgsql")>>)
                  ELSE /\ echo(<<msg("Importing data with osm2pgsql")>>)
                       /\ UNCHANGED sh_env
               /\ shPc' = "import"
               /\ UNCHANGED sh_exit
    /\ UNCHANGED <<script, sh_ran>>
    /\ UNCHANGED notShell

\* load_osm_data.sh: osm2pgsql --create, IMPORT_EXIT=$? and its test
LoadImport ==
    /\ shPc = "import" /\ script = "load"
    /\ \E status \in ExitStatuses :
          /\ ran("osm2pgsql", status, {})
          /\ IF status # 0
             THEN \* set -e: the shell leaves before IMPORT_EXIT=$?
                  /\ exit(status)
                  /\ UNCHANGED <<sh_env, sh_out>>
             ELSE /\ assign("IMPORT_EXIT", status)
                  /\ IF status = 0
                     THEN /\ echo(<<msg("Import completed successfully"),
                                    msg("Initializing osm2pgsql-replication")>>)
                          /\ shPc' = "replication"
                          /\ UNCHANGED sh_exit
                     ELSE /\ echo(<<msg_code("Import failed with exit code", status)>>)
                          /\ exit(status)
    /\ UNCHANGED script
    /\ UNCHANGED notShell

\* load_osm_data.sh: osm2pgsql-replication init, REPL_EXIT=$? and its test
LoadReplicationInit ==
    /\ shPc = "replication" /\ script = "load"
    /\ \E status \in ExitStatuses :
          /\ ran("osm2pgsql-replication init", status, {})
          /\ IF status # 0
             THEN \* set -e: the shell leaves before REPL_EXIT=$?
                  /\ exit(status)
                  /\ UNCHANGED <<sh_env, sh_out>>
             ELSE /\ assign("REPL_EXIT", status)
                  /\ IF status = 0
                     THEN echo(<<msg("Replication initialized successfully"), msg("Pipeline complete!")>>)
                     ELSE echo(<<msg_code("Replication initialization failed", status),
                                 msg("The database is ready to use, but automatic updates won't be available.")>>)
                  /\ exit(0)
    /\ UNCHANGED script
    /\ UNCHANGED notShell

\* update script: osm2pgsql-replication is looked for
UpdateCheck ==
    /\ shPc = "start" /\ script = "update"
    /\ \E installed \in BOOLEAN :
          IF ~installed
          THEN /\ echo(<<msg("Starting update"), msg("Error: osm2pgsql-replication is not installed")>>)
               /\ exit(1)
          ELSE /\ echo(<<msg("Starting update"), msg("osm2pgsql-replication found"),
                         msg("Checking replication status")>>)
               /\ shPc' = "status"
               /\ UNCHANGED sh_exit
    /\ UNCHANGED <<script, sh_env, sh_ran>>
    /\ UNCHANGED notShell

\* update script: STATUS_OUTPUT=$(osm2pgsql-replication status ...) || { ...; exit 1; }
UpdateStatus ==
    /\ shPc = "status" /\ script = "update"
    /\ \E status \in ExitStatuses :
          /\ ran("osm2pgsql-replication status", status, {})
          /\ assign("STATUS_OUTPUT", {})
          /\ IF status # 0
             THEN /\ echo(<<msg("Error: Replication not initialized")>>)
                  /\ exit(1)
             ELSE /\ echo(<<msg("Applying replication updates")>>)
                  /\ shPc' = "update"
                  /\ UNCHANGED sh_exit
    /\ UNCHANGED script
    /\ UNCHANGED notShell

\* update script: UPDATE_OUTPUT=$(osm2pgsql-replication update ... 2>&1)
\* and UPDATE_EXIT=$?
UpdateRun ==
    /\ shPc = "update" /\ script = "update"
    /\ \E status \in ExitStatuses, output \in Outputs :
          /\ ran("osm2pgsql-replication update", status, output)
          /\ IF status # 0
             THEN \* set -e: the assignment fails with the status of the
                  \* command substitution and the shell leaves
                  /\ exit(status)
                  /\ UNCHANGED sh_env
             ELSE /\ sh_env' = [ k \in DOMAIN sh_env \cup {"UPDATE_OUTPUT", "UPDATE_EXIT"} |->
                                   IF k = "UPDATE_OUTPUT" THEN output
                                   ELSE IF k = "UPDATE_EXIT" THEN status
                                   ELSE sh_env[k] ]
                  /\ shPc' = "report"
                  /\ UNCHANGED sh_exit
    /\ UNCHANGED <<script, sh_out>>
    /\ UNCHANGED notShell

\* update script: the output is logged and UPDATE_EXIT is told apart
UpdateReport ==
    /\ shPc = "report" /\ script = "update"
    /\ LET UPDATE_EXIT   == sh_env["UPDATE_EXIT"]
           UPDATE_OUTPUT == sh_env["UPDATE_OUTPUT"]
       IN  IF UPDATE_EXIT = 0
           THEN /\ echo(<<msg("Update completed successfully")>>
                        \o (IF grep_stats(UPDATE_OUTPUT) THEN <<msg("Update statistics")>> ELSE <<>>))
                /\ exit(0)
           ELSE IF UPDATE_EXIT = 1
           THEN IF grep_qi({"up to date", "no new data"}, UPDATE_OUTPUT)
                THEN /\ echo(<<msg("Database is already up to date")>>)
                     /\ exit(0)
                ELSE /\ echo(<<msg_code("Update failed with exit code", UPDATE_EXIT)>>)
                     /\ exit(UPDATE_EXIT)
           ELSE /\ echo(<<msg_code("Update failed with exit code", UPDATE_EXIT)>>
                        \o (IF grep_qi({"connection refused", "could not connect"}, UPDATE_OUTPUT)
                            THEN <<msg("Hint: Database connection failed. Is PostgreSQL running?")>>
                            ELSE IF grep_qi({"404", "not found"}, UPDATE_OUTPUT)
                            THEN <<msg("Hint: Replication files not found. Check REPLICATION_URL configuration.")>>
                            ELSE <<>>))
                /\ exit(UPDATE_EXIT)
    /\ UNCHANGED <<script, sh_env, sh_ran>>
    /\ UNCHANGED notShell

NextScripts ==
    \/ LoadCheck
    \/ LoadFilter
    \/ LoadCheckLua
    \/ LoadImport
    \/ LoadReplicationInit
    \/ UpdateCheck
    \/ UpdateStatus
    \/ UpdateRun
    \/ UpdateReport

SpecScripts == InitScripts /\ [][NextScripts]_vars

\* the statuses a command ended with in this run
StatusesOf(cmd) == { sh_ran[i].status : i \in { j \in DOMAIN sh_ran : sh_ran[j].cmd = cmd } }

Printed(text) == \E i \in DOMAIN sh_out : sh_out[i].text = text

\* C27: in load_osm_data.sh, when the import succeeded and replication
\* init then fails, the script prints the 'Replication initialization
\* failed' warning and exits 0; replication init is never started unless
\* the import exited 0.
C27_ReplicationFailureTolerated ==
    (script = "load") =>
        /\ (StatusesOf("osm2pgsql-replication init") # {}) => StatusesOf("osm2pgsql") = {0}
        /\ (shPc = "exited" /\ StatusesOf("osm2pgsql-replication init") \notin { {}, {0} }) =>
              /\ Printed("Replication initialization failed")
              /\ sh_exit = 0

\* C28: in the update script, when the update command exits 1 and its
\* output says up to date or no new data, the script logs 'Database is
\* already up to date' and exits 0; for any other non-zero status N it logs
\* 'Update failed with exit code N' and exits N.
C28_UpdateStatusHandled ==
    (script = "update" /\ shPc = "exited") =>
        \A i \in DOMAIN sh_ran :
            (sh_ran[i].cmd = "osm2pgsql-replication update" /\ sh_ran[i].status # 0) =>
                IF sh_ran[i].status = 1 /\ grep_qi({"up to date", "no new data"}, sh_ran[i].output)
                THEN Printed("Database is already up to date") /\ sh_exit = 0
                ELSE /\ msg_code("Update failed with exit code", sh_ran[i].status)
                            \in { sh_out[j] : j \in DOMAIN sh_out }
                     /\ sh_exit = sh_ran[i].status

\* ---------------------------------------------------------------------
\* The frontend: the App component (src/src/App.js) under the Map
\* component's move events and the element loader's submissions.  A call
\* runs up to its await; the response to a fetch arrives as a later step,
\* in any order.
\* ---------------------------------------------------------------------

\* the calls of fetchPOIs and handleLoadElement one run makes
MaxCalls == 3

\* src/src/config/map.ts
MIN_ZOOM == 12

\* zoom levels of the map at a move end: one below the threshold, one at it
Zooms == {MIN_ZOOM - 1, MIN_ZOOM}

\* bounding boxes the map reports (finite numbers, named by their area)
Bboxes == {"downtown", "harbour"}

ElementIds == {1, 2}

\* what the element loader passes as type
LoaderTypes == {"n", "w", "r"}

\* the body of data.elements the API answers for a bounding box: the
\* elements lying in it, nodes and ways
ApiElements(bbox) ==
    IF bbox = "downtown"
    THEN << [type |-> "node", id |-> 1], [type |-> "way", id |-> 2] >>
    ELSE << [type |-> "node", id |-> 2] >>

\* useState(null) of selectedPoi
NoPoi == [null |-> TRUE]

\* a poi of the list; id is `${type}/${id}`
Poi(type, id) == [null |-> FALSE, id |-> <<type, id>>]

\* the loop of fetchPOIs over data.elements: nodes only, in order
RECURSIVE parse(_)
parse(elements) ==
    IF elements = <<>> THEN <<>>
    ELSE LET el == Head(elements) IN
         IF el.type # "node" THEN parse(Tail(elements))
         ELSE <<Poi("node", el.id)>> \o parse(Tail(elements))

\* typeMap of handleLoadElement
typeMap(type) ==
    CASE type = "n" -> "node"
      [] type = "w" -> "way"
      [] type = "r" -> "relation"

\* prev.filter((p) => p.id !== poi.id)
RECURSIVE without(_, _)
without(prev, poi) ==
    IF prev = <<>> THEN <<>>
    ELSE IF Head(prev).id = poi.id THEN without(Tail(prev), poi)
         ELSE <<Head(prev)>> \o without(Tail(prev), poi)

\* what the frontend leaves alone
notApp == <<classifierVars, apiVars, shVars>>

\* the component as mounted: the useState initial values, nothing fetched
InitApp ==
    /\ ClassifierIdle
    /\ ApiOff
    /\ ShellOff
    /\ appPc = "mounted"
    /\ loading = FALSE
    /\ app_pois = <<>>
    /\ error = Nil
    /\ selectedPoi = NoPoi
    /\ inflight = {}
    /\ calls = <<>>

\* a fetch was issued: it stays in flight until its response step
issue(call, arg) ==
    /\ inflight' = inflight \cup { [id |-> Len(calls) + 1, call |-> call, arg |-> arg] }
    /\ calls' = Append(calls, [call |-> call, arg |-> arg, outcome |-> "pending"])

\* the promise of request r settled with the outcome
settle(r, outcome) ==
    /\ inflight' = inflight \ {r}
    /\ calls' = [calls EXCEPT ![r.id].outcome = outcome]

\* handleMoveEnd of the Map: below MIN_ZOOM it returns, else it calls
\* onBoundsChange = fetchPOIs, which runs up to its await fetch
MoveEnd ==
    /\ appPc = "mounted"
    /\ Len(calls) < MaxCalls
    /\ \E bbox \in Bboxes, zoom \in Zooms :
        /\ zoom >= MIN_ZOOM
        /\ IF zoom < MIN_ZOOM
           THEN /\ app_pois' = <<>>
                /\ error' = Nil
                /\ loading' = FALSE
                /\ selectedPoi' = NoPoi
                /\ UNCHANGED <<inflight, calls>>
           ELSE /\ loading' = TRUE
                /\ error' = Nil
                /\ issue("fetchPOIs", bbox)
                /\ UNCHANGED <<app_pois, selectedPoi>>
    /\ UNCHANGED appPc
    /\ UNCHANGED notApp

\* fetchPOIs after its await: res.ok, the nodes of the answer become the
\* list; finally setLoading(false)
PoisResponseOk ==
    /\ appPc = "mounted"
    /\ \E r \in inflight :
        /\ r.call = "fetchPOIs"
        /\ app_pois' = parse(ApiElements(r.arg))
        /\ loading' = FALSE
        /\ settle(r, "ok")
    /\ UNCHANGED <<appPc, error, selectedPoi>>
    /\ UNCHANGED notApp

\* fetchPOIs after its await: fetch rejected or !res.ok, the catch sets
\* the error; finally setLoading(false)
PoisResponseError ==
    /\ appPc = "mounted"
    /\ \E r \in inflight :
        /\ r.call = "fetchPOIs"
        /\ error' = "API error: Unable to fetch POIs"
        /\ loading' = FALSE
        /\ settle(r, "error")
    /\ UNCHANGED <<appPc, app_pois, selectedPoi>>
    /\ UNCHANGED notApp
\* handleLoadElement up to its await fetch
HandleLoadElement ==
    /\ appPc = "mounted"
    /\ Len(calls) < MaxCalls
    /\ \E type \in LoaderTypes, id \in ElementIds :
        /\ loading' = TRUE
        /\ error' = Nil
        /\ issue("handleLoadElement", <<typeMap(type), id>>)
    /\ UNCHANGED <<appPc, app_pois, selectedPoi>>
    /\ UNCHANGED notApp

\* handleLoadElement after its await: the element becomes the selection
\* and the head of the list; finally setLoading(false)
ElementResponseOk ==
    /\ appPc = "mounted"
    /\ \E r \in inflight :
        /\ r.call = "handleLoadElement"
        /\ LET poi == Poi(r.arg[1], r.arg[2]) IN
            /\ selectedPoi' = poi
            /\ app_pois' = <<poi>> \o without(app_pois, poi)
        /\ loading' = FALSE
        /\ settle(r, "ok")
    /\ UNCHANGED <<appPc, error>>
    /\ UNCHANGED notApp

\* handleLoadElement after its await: 404, another status, a rejected
\* fetch or an empty elements list; finally setLoading(false)
ElementResponseError ==
    /\ appPc = "mounted"
    /\ \E r \in inflight :
        /\ r.call = "handleLoadElement"
        /\ error' \in {"Element not found", "API error: Unable to fetch element"}
        /\ loading' = FALSE
        /\ settle(r, "error")
    /\ UNCHANGED <<appPc, app_pois, selectedPoi>>
    /\ UNCHANGED notApp

NextApp ==
    \/ MoveEnd
    \/ PoisResponseOk
    \/ PoisResponseError
    \/ HandleLoadElement
    \/ ElementResponseOk
    \/ ElementResponseError

SpecApp == InitApp /\ [][NextApp]_vars

\* the requests of the named call made so far, by their position in calls
CallsOf(call) == { i \in DOMAIN calls : calls[i].call = call }

\* C29: for every interleaving of fetchPOIs and handleLoadElement calls
\* and of their responses, loading is true whenever at least one request is
\* still in flight, and false once all of them have settled.
C29_LoadingWhileInFlight ==
    (appPc = "mounted") => (loading <=> inflight # {})

\* C30: when several fetchPOIs requests overlapped and all have settled,
\* the pois list holds the result for the most recently requested bounding
\* box: the response to an older request does not overwrite a newer one.
C30_LatestBboxWins ==
    ( /\ appPc = "mounted"
      /\ inflight = {}
      /\ Len(calls) >= 2
      /\ CallsOf("fetchPOIs") = DOMAIN calls
      /\ \A i \in DOMAIN calls : calls[i].outcome = "ok" )
        => app_pois = parse(ApiElements(calls[Len(calls)].arg))

====
